---- MODULE Spec2Model ----
(***************************************************************************)
(* HR request workflow of the HR administration application:               *)
(*   src/app/api/hr-request/route.ts      POST / GET / PATCH handlers      *)
(*   src/app/api/auth/[...nextauth]/route.ts  session principal            *)
(*   src/lib/zenhr.ts                     ZenHR connector                  *)
(*   prisma migration (schema)            tables, defaults, foreign keys   *)
(*                                                                         *)
(* Strings that the handlers convert (toUpperCase) are sequences of        *)
(* one-character strings; identifiers are TLA+ strings; HRRequest,         *)
(* RequestApproval and Notification tables are sequences in creation       *)
(* order, the index of a row being its id.                                 *)
(***************************************************************************)
EXTENDS Integers, Sequences, FiniteSets, TLC

VARIABLES
    apiKey,           \* ZenHRAPI.apiKey is non-empty (a credential is configured)
    user,             \* table "User": id -> [role, companyId]
    session,          \* per client: the session principal of its JWT, or NoSession
    hrRequest,        \* table "HRRequest"
    requestApproval,  \* table "RequestApproval"
    notification,     \* table "Notification"
    moves,            \* number of User.companyId updates so far
    response,         \* outcome of the most recent handler call
    attendance,       \* table "Attendance"
    zenhrAttendance,  \* attendance marks the ZenHR service has accepted
    inflight          \* handler calls that are between two of their awaits

vars == <<apiKey, user, session, hrRequest, requestApproval, notification, moves, response,
          attendance, zenhrAttendance, inflight>>

\* what the hr-request handlers, run one call at a time, leave alone
others == <<attendance, zenhrAttendance, inflight>>

(* ------------------------------ bounds -------------------------------- *)
MaxRequests == 2
MaxApprovals == 1
MaxMoves == 1
MaxUpdates == 3          \* RequestApproval rows when updates are followed one after another
MaxCalls == 2
MaxRacing == 2          \* RequestApproval rows when updates run at the same time
MaxAttendance == 2      \* Attendance rows in the store
MaxMarks == 2           \* attendance marks the ZenHR service accepts

(* ------------------------------ values -------------------------------- *)
NULL == "NULL"                     \* SQL NULL / JS null in an identifier column
NoSession == [id |-> NULL, role |-> NULL, companyId |-> NULL]
Undefined == <<"undefined">>       \* JS undefined / absent body field or query parameter
Empty == <<>>                      \* the empty string ''
NoId == 0                          \* absent requestId

Companies == {"c1", "c2"}          \* rows of table "Company"
Users == {"e1", "m1", "a2"}        \* rows of table "User"
Clients == Users \cup {"anon"}     \* callers: each user's client, and one that never signs in
Movable == {"e1"}                  \* users whose company is changed while they hold a session
OtherRoles == {"ADMIN", "HR"}      \* "role" is free-form TEXT: a2 holds one of these

PENDING == <<"P", "E", "N", "D", "I", "N", "G">>
MEDIUM == <<"M", "E", "D", "I", "U", "M">>
HIGH == <<"H", "I", "G", "H">>

\* inputs the callers supply
FullBody == [type |-> <<"l", "v">>, title |-> <<"t">>, description |-> <<"d">>,
             priority |-> Undefined]
POSTBodies ==
    {FullBody,
     [FullBody EXCEPT !.priority = HIGH],
     [FullBody EXCEPT !.type = Undefined],
     [FullBody EXCEPT !.type = Empty],
     [FullBody EXCEPT !.title = Undefined],
     [FullBody EXCEPT !.description = Undefined]}
StatusInputs == {Undefined, <<"o", "k">>, <<"N", "o">>}
CommentInputs == {Undefined, <<"c">>}
StatusFilters == {Undefined, <<"O", "k">>}
TypeFilters == {Undefined, <<"l", "V">>, <<"t">>}
EmployeeIdFilters == Users \cup {NULL}
RequestIdInputs == 0..MaxRequests
\* the date of an attendance mark, as the client writes it (NULL: left out)
DateInputs == {NULL, "2024-02-15", "2024-02-15T00:00:00.000Z", "2024-02-16", "soon"}
\* startDate and endDate of an attendance query
RangeInputs == {<<NULL, NULL>>, <<"2024-02-16", NULL>>, <<"2024-02-16", "2024-02-16">>}
\* what the ZenHR service is sent with an attendance mark
MarkPayloads == [employeeId : Users, date : DateInputs \ {NULL}]
\* result of the one fetch() of makeRequest; no fetch without a credential
NetOutcomes == IF apiKey THEN {"ok", "error"} ELSE {"none"}

(* ----------------------------- strings -------------------------------- *)
Lower == <<"a", "b", "c", "d", "e", "g", "i", "k", "l", "m", "n", "o", "p", "t", "u", "v">>
Upper == <<"A", "B", "C", "D", "E", "G", "I", "K", "L", "M", "N", "O", "P", "T", "U", "V">>

\* String.prototype.toUpperCase, character by character
toUpperCaseChar(ch) ==
    IF \E i \in DOMAIN Lower : Lower[i] = ch
    THEN Upper[CHOOSE i \in DOMAIN Lower : Lower[i] = ch]
    ELSE ch

toUpperCase(s) == [i \in DOMAIN s |-> toUpperCaseChar(s[i])]

\* JS falsiness of a body field or query parameter: undefined, null or ''
Falsy(s) == s = Undefined \/ s = Empty

(* ----------------------------- session -------------------------------- *)
\* authorize() result carried through the jwt and session callbacks
authorize(u) ==
    [id |-> u,
     role |-> user[u].role,
     companyId |-> IF user[u].companyId = NULL THEN "" ELSE user[u].companyId]

(* ---------------------------- connector ------------------------------- *)
\* mutant: a failed fetch is tried again, and the second attempt succeeds
makeRequest_Retry(net) == "ok"

\* makeRequest: one fetch; a non-ok response or transport failure throws
makeRequest(net) == IF net = "ok" THEN "ok" ELSE "failed"

\* submitHRRequest: canned response without a credential, else one network call
submitHRRequest(net) == IF ~apiKey THEN "mock" ELSE makeRequest(net)

\* mutant: the canned response is forgotten, every call goes to the network
updateHRRequestStatus_NoMock(net) == makeRequest(net)

\* updateHRRequestStatus: canned response without a credential, else one network call
updateHRRequestStatus(net) == IF ~apiKey THEN "mock" ELSE makeRequest(net)

\* markAttendance: canned response without a credential, else one network call
markAttendance(net) == IF ~apiKey THEN "mock" ELSE makeRequest(net)

\* the read operations of the connector follow the same pattern
fetchEmployeeData(net) == IF ~apiKey THEN "mock" ELSE makeRequest(net)

fetchAllEmployees(net) == IF ~apiKey THEN "mock" ELSE makeRequest(net)

fetchAttendanceRecords(net) == IF ~apiKey THEN "mock" ELSE makeRequest(net)

fetchHRRequests(net) == IF ~apiKey THEN "mock" ELSE makeRequest(net)

(* ------------------------- calls in progress -------------------------- *)
Slots == 1..MaxCalls               \* handler calls that can run at the same time
NoCall == [pc |-> "none"]
Active == {k \in Slots : inflight[k] # NoCall}

(* ----------------------------- responses ------------------------------ *)
NoBody == [absent |-> TRUE]

\* what the caller gets back, with the body the handler read from the request
Idle == [op |-> "none", caller |-> NULL, code |-> 0, zenhr |-> "notcalled",
         net |-> "none", data |-> <<>>, body |-> NoBody]

Respond(op, c, code, zenhr, body) ==
    [Idle EXCEPT !.op = op, !.caller = c, !.code = code, !.zenhr = zenhr, !.body = body]

(* ------------------------------- Init --------------------------------- *)
\* A seeded store: an employee and a manager in company c1, a third user in
\* company c2; every user holds the session issued at sign-in.
Init ==
    /\ apiKey \in BOOLEAN
    /\ \E other \in OtherRoles :
         user = [u \in Users |->
                   CASE u = "e1" -> [role |-> "EMPLOYEE", companyId |-> "c1"]
                     [] u = "m1" -> [role |-> "MANAGER", companyId |-> "c1"]
                     [] OTHER -> [role |-> other, companyId |-> "c2"]]
    /\ session = [c \in Clients |-> IF c \in Users THEN authorize(c) ELSE NoSession]
    /\ hrRequest = <<>>
    /\ requestApproval = <<>>
    /\ notification = <<>>
    /\ moves = 0
    /\ response = Idle
    /\ attendance = <<>>
    /\ zenhrAttendance = [m \in MarkPayloads |-> 0]
    /\ inflight = [k \in Slots |-> NoCall]

(* ------------------------------ sign-in ------------------------------- *)
\* Credentials sign-in: authorize() looks the user up and the jwt/session
\* callbacks copy role and companyId into the token; a wrong password
\* yields no principal and the client keeps the token it has.
SignIn(u, passwordValid) ==
    /\ response = Idle
    /\ session' = IF passwordValid THEN [session EXCEPT ![u] = authorize(u)] ELSE session
    /\ UNCHANGED <<apiKey, user, hrRequest, requestApproval, notification, moves, response>>
    /\ UNCHANGED others

\* "User"."companyId" is a nullable, updatable column: the row of a user is
\* moved to another company (or to none) outside this workflow, while the
\* session token issued earlier stays as it is.
UpdateUserCompany(u, c) ==
    /\ response = Idle
    /\ moves < MaxMoves
    /\ c # user[u].companyId
    /\ user' = [user EXCEPT ![u].companyId = c]
    /\ moves' = moves + 1
    /\ UNCHANGED <<apiKey, session, hrRequest, requestApproval, notification, response>>
    /\ UNCHANGED others

(* ------------------------- POST /hr-request --------------------------- *)
\* mutant: the title check is forgotten
POSTValid_NoTitle(body) == ~(Falsy(body.type) \/ Falsy(body.description))

\* if (!type || !title || !description) -> 400
POSTValid(body) == ~(Falsy(body.type) \/ Falsy(body.title) \/ Falsy(body.description))

\* priority = 'MEDIUM' in the destructuring of the body
POSTPriority(body) == IF body.priority = Undefined THEN MEDIUM ELSE body.priority

\* mutant: the connector's exception is swallowed and the handler goes on
POSTAborts_Continue(z) == FALSE

\* an exception of submitHRRequest leaves the try block for the catch
POSTAborts(z) == z = "failed"

\* mutant: the role filter is forgotten
ManagerCandidates_AnyRole(s) ==
    {m \in Users : user[m].companyId = user[s.id].companyId}

\* prisma.user.findUnique({ id: session.user.id }), then
\* prisma.user.findFirst({ where: { companyId: employee?.companyId, role: 'MANAGER' } })
ManagerCandidates(s) ==
    {m \in Users : user[m].role = "MANAGER" /\ user[m].companyId = user[s.id].companyId}

\* foreign keys of "HRRequest": the insert throws when one does not resolve
HRRequestInsertable(row) ==
    /\ row.employeeId \in Users
    /\ row.companyId \in Companies
    /\ row.managerId \in Users \cup {NULL}

\* data of prisma.hRRequest.create; status takes the column default
POSTCreate(s, body, manager) ==
    [type |-> toUpperCase(body.type),
     title |-> body.title,
     status |-> PENDING,
     priority |-> POSTPriority(body),
     comments |-> Undefined,
     employeeId |-> s.id,
     managerId |-> manager,
     companyId |-> s.companyId]

POSTNotification(manager) == [title |-> "New HR Request", userId |-> manager]

POST(c, body) ==
    LET s == session[c]
        R(code, zenhr) == Respond("submit", c, code, zenhr, body)
    IN
    /\ response = Idle
    /\ UNCHANGED <<apiKey, user, session, requestApproval, moves>>
    /\ UNCHANGED others
    /\ IF s = NoSession THEN
           /\ response' = Respond("submit", c, 401, "notcalled", NoBody)
           /\ UNCHANGED <<hrRequest, notification>>
       ELSE IF ~POSTValid(body) THEN
           /\ response' = R(400, "notcalled")
           /\ UNCHANGED <<hrRequest, notification>>
       ELSE \E net \in NetOutcomes : LET z == submitHRRequest(net) IN
           IF POSTAborts(z) THEN
               /\ response' = [R(500, z) EXCEPT !.net = net]
               /\ UNCHANGED <<hrRequest, notification>>
           ELSE \E manager \in (IF ManagerCandidates(s) = {} THEN {NULL} ELSE ManagerCandidates(s)) :
               LET row == POSTCreate(s, body, manager) IN
               IF ~HRRequestInsertable(row) THEN
                   /\ response' = [R(500, z) EXCEPT !.net = net]
                   /\ UNCHANGED <<hrRequest, notification>>
               ELSE
                   /\ Len(hrRequest) < MaxRequests
                   /\ hrRequest' = Append(hrRequest, row)
                   /\ notification' =
                        IF manager # NULL
                        THEN Append(notification, POSTNotification(manager))
                        ELSE notification
                   /\ response' = [R(200, z) EXCEPT !.net = net]

(* ------------------------- GET /hr-request ---------------------------- *)
\* mutant: an EMPLOYEE's employeeId parameter is honoured like a MANAGER's
GETWhere_EmployeeFilter(s, status, type, employeeId, r) ==
    /\ CASE s.role = "EMPLOYEE" \/ s.role = "MANAGER" ->
              IF employeeId # NULL THEN r.employeeId = employeeId
              ELSE r.employeeId = s.id \/ r.managerId = s.id
         [] s.role = "ADMIN" ->
              /\ r.companyId = s.companyId
              /\ employeeId # NULL => r.employeeId = employeeId
         [] OTHER -> TRUE
    /\ ~Falsy(status) => r.status = toUpperCase(status)
    /\ ~Falsy(type) => r.type = toUpperCase(type)

\* mutant: a manager's scope loses the requests assigned to them
GETWhere_AuthoredOnly(s, status, type, employeeId, r) ==
    /\ CASE s.role = "EMPLOYEE" -> r.employeeId = s.id
         [] s.role = "MANAGER" ->
              IF employeeId # NULL THEN r.employeeId = employeeId
              ELSE r.employeeId = s.id
         [] s.role = "ADMIN" ->
              /\ r.companyId = s.companyId
              /\ employeeId # NULL => r.employeeId = employeeId
         [] OTHER -> TRUE
    /\ ~Falsy(status) => r.status = toUpperCase(status)
    /\ ~Falsy(type) => r.type = toUpperCase(type)

\* the Prisma where clause built from the role and the query parameters
GETWhere(s, status, type, employeeId, r) ==
    /\ CASE s.role = "EMPLOYEE" -> r.employeeId = s.id
         [] s.role = "MANAGER" ->
              IF employeeId # NULL THEN r.employeeId = employeeId
              ELSE r.employeeId = s.id \/ r.managerId = s.id
         [] s.role = "ADMIN" ->
              /\ r.companyId = s.companyId
              /\ employeeId # NULL => r.employeeId = employeeId
         [] OTHER -> TRUE
    /\ ~Falsy(status) => r.status = toUpperCase(status)
    /\ ~Falsy(type) => r.type = toUpperCase(type)

RECURSIVE Descending(_)
\* ids n, n-1, ..., 1: orderBy createdAt desc
Descending(n) == IF n = 0 THEN <<>> ELSE <<n>> \o Descending(n - 1)

\* findMany({ where, orderBy: { createdAt: 'desc' } }): ids of the matching rows
GETFindMany(s, status, type, employeeId) ==
    SelectSeq(Descending(Len(hrRequest)),
              LAMBDA id : GETWhere(s, status, type, employeeId, hrRequest[id]))

GET(c, status, type, employeeId) ==
    LET s == session[c] IN
    /\ response = Idle
    /\ UNCHANGED <<apiKey, user, session, hrRequest, requestApproval, notification, moves>>
    /\ UNCHANGED others
    /\ IF s = NoSession THEN
           response' = Respond("list", c, 401, "notcalled", NoBody)
       ELSE
           response' = [Respond("list", c, 200, "notcalled", NoBody)
                          EXCEPT !.data = GETFindMany(s, status, type, employeeId)]

(* ------------------------ PATCH /hr-request --------------------------- *)
\* mutant: only the session is checked, not the role
PATCHAuthorized_AnySession(s) == s # NoSession

\* !session?.user || (role !== 'MANAGER' && role !== 'ADMIN') -> 401
PATCHAuthorized(s) == s # NoSession /\ (s.role = "MANAGER" \/ s.role = "ADMIN")

\* if (!requestId || !status) -> 400
PATCHValid(body) == body.requestId # NoId /\ ~Falsy(body.status)

\* mutant: the connector's exception is swallowed and the handler goes on
PATCHAborts_Continue(z) == FALSE

\* an exception of updateHRRequestStatus leaves the try block for the catch
PATCHAborts(z) == z = "failed"

\* mutant: only a pending request takes a new status
PATCHUpdate_OnlyPending(r, status, comments) ==
    IF r.status = PENDING
    THEN [r EXCEPT !.status = toUpperCase(status),
                   !.comments = IF comments = Undefined THEN @ ELSE comments]
    ELSE r

\* mutant: the update also clears the assigned manager
PATCHUpdate_Reassign(r, status, comments) ==
    [r EXCEPT !.status = toUpperCase(status),
              !.comments = IF comments = Undefined THEN @ ELSE comments,
              !.managerId = NULL]

\* prisma.hRRequest.update({ where: { id }, data: { status, comments } });
\* an undefined comments leaves the column as it is
PATCHUpdate(r, status, comments) ==
    [r EXCEPT !.status = toUpperCase(status),
              !.comments = IF comments = Undefined THEN @ ELSE comments]

\* data of prisma.requestApproval.create
PATCHApproval(s, body) ==
    [requestId |-> body.requestId,
     approverId |-> s.id,
     status |-> toUpperCase(body.status),
     comments |-> body.comments]

PATCHNotification(updatedRequest) ==
    [title |-> "HR Request Update", userId |-> updatedRequest.employeeId]

\* the handler, with at most cap RequestApproval rows in the store
PATCHCall(c, body, cap) ==
    LET s == session[c]
        R(code, zenhr, b) == Respond("update", c, code, zenhr, b)
    IN
    /\ response = Idle
    /\ UNCHANGED <<apiKey, user, session, moves>>
    /\ UNCHANGED others
    /\ IF ~PATCHAuthorized(s) THEN
           /\ response' = R(401, "notcalled", NoBody)
           /\ UNCHANGED <<hrRequest, requestApproval, notification>>
       ELSE IF ~PATCHValid(body) THEN
           /\ response' = R(400, "notcalled", NoBody)
           /\ UNCHANGED <<hrRequest, requestApproval, notification>>
       ELSE IF body.requestId \notin DOMAIN hrRequest THEN
           \* update of a record that does not exist throws
           /\ response' = R(500, "notcalled", NoBody)
           /\ UNCHANGED <<hrRequest, requestApproval, notification>>
       ELSE \E net \in NetOutcomes : LET z == updateHRRequestStatus(net) IN
           /\ Len(requestApproval) < cap
           /\ hrRequest' = [hrRequest EXCEPT ![body.requestId] =
                                PATCHUpdate(@, body.status, body.comments)]
           /\ requestApproval' = Append(requestApproval, PATCHApproval(s, body))
           /\ IF PATCHAborts(z) THEN
                  /\ response' = [R(500, z, body) EXCEPT !.net = net]
                  /\ UNCHANGED notification
              ELSE
                  /\ notification' = Append(notification,
                                            PATCHNotification(hrRequest'[body.requestId]))
                  /\ response' = [R(200, z, body) EXCEPT !.net = net]

PATCH(c, body) == PATCHCall(c, body, MaxApprovals)

(* ------------------------------ reply --------------------------------- *)
\* return NextResponse.json(...): the response goes back to the caller, and
\* the next call is handled
Reply ==
    /\ response # Idle
    /\ response' = Idle
    /\ UNCHANGED <<apiKey, user, session, hrRequest, requestApproval, notification, moves>>
    /\ UNCHANGED others

(* ------------------------------- Next --------------------------------- *)
PATCHBodies ==
    [requestId : RequestIdInputs \ {NoId}, status : StatusInputs \ {Undefined},
     comments : CommentInputs]
    \cup {[requestId |-> NoId, status |-> <<"o", "k">>, comments |-> Undefined],
          [requestId |-> 1, status |-> Undefined, comments |-> Undefined],
          [requestId |-> 1, status |-> Empty, comments |-> Undefined]}

DoSignIn == \E u \in Users, ok \in BOOLEAN : SignIn(u, ok)

DoUpdateUserCompany ==
    \E u \in Movable, c \in Companies \cup {NULL} : UpdateUserCompany(u, c)

DoPOST == \E c \in Clients, body \in POSTBodies : POST(c, body)

DoGET ==
    \E c \in Clients, status \in StatusFilters, type \in TypeFilters,
       employeeId \in EmployeeIdFilters :
        GET(c, status, type, employeeId)

DoPATCH == \E c \in Clients, body \in PATCHBodies : PATCH(c, body)

Next == DoSignIn \/ DoUpdateUserCompany \/ DoPOST \/ DoGET \/ DoPATCH \/ Reply

Spec == Init /\ [][Next]_vars


(* ----------------- status updates, one after another ------------------ *)
\* the store after two submissions: one by the employee e1, assigned to the
\* manager of her company and announced to him, one by a2, whose company has
\* no manager
InitUpdates ==
    /\ apiKey \in BOOLEAN
    /\ \E other \in OtherRoles :
         user = [u \in Users |->
                   CASE u = "e1" -> [role |-> "EMPLOYEE", companyId |-> "c1"]
                     [] u = "m1" -> [role |-> "MANAGER", companyId |-> "c1"]
                     [] OTHER -> [role |-> other, companyId |-> "c2"]]
    /\ session = [c \in Clients |-> IF c \in Users THEN authorize(c) ELSE NoSession]
    /\ hrRequest = <<POSTCreate(session["e1"], FullBody, "m1"),
                     POSTCreate(session["a2"], FullBody, NULL)>>
    /\ requestApproval = <<>>
    /\ notification = <<POSTNotification("m1")>>
    /\ moves = 0
    /\ response = Idle
    /\ attendance = <<>>
    /\ zenhrAttendance = [m \in MarkPayloads |-> 0]
    /\ inflight = [k \in Slots |-> NoCall]

DoPATCHUpdates == \E c \in Clients, body \in PATCHBodies : PATCHCall(c, body, MaxUpdates)

NextUpdates == DoPATCHUpdates \/ Reply

SpecUpdates == InitUpdates /\ [][NextUpdates]_vars

(* ------------- status updates in progress at the same time ------------ *)
\* the handler up to its first write
PATCHBegin(k, c, body) ==
    LET s == session[c]
        R(code) == Respond("update", c, code, "notcalled", NoBody)
    IN
    /\ inflight[k] = NoCall
    /\ UNCHANGED <<apiKey, user, session, hrRequest, requestApproval, notification, moves,
                   attendance, zenhrAttendance>>
    /\ IF ~PATCHAuthorized(s) THEN
           /\ response = Idle
           /\ response' = R(401)
           /\ UNCHANGED inflight
       ELSE IF ~PATCHValid(body) THEN
           /\ response = Idle
           /\ response' = R(400)
           /\ UNCHANGED inflight
       ELSE
           /\ Len(requestApproval) + Cardinality(Active) < MaxRacing
           /\ inflight' = [inflight EXCEPT ![k] =
                             [pc |-> "update", caller |-> c, user |-> s, body |-> body,
                              updatedRequest |-> NULL, zenhr |-> "notcalled",
                              net |-> "none"]]
           /\ UNCHANGED response

\* await prisma.hRRequest.update
PATCHWriteStatus(k) ==
    LET call == inflight[k]
        rid == call.body.requestId
    IN
    /\ call # NoCall
    /\ call.pc = "update"
    /\ UNCHANGED <<apiKey, user, session, requestApproval, notification, moves,
                   attendance, zenhrAttendance>>
    /\ IF rid \notin DOMAIN hrRequest THEN
           /\ response = Idle
           /\ response' = Respond("update", call.caller, 500, "notcalled", NoBody)
           /\ inflight' = [inflight EXCEPT ![k] = NoCall]
           /\ UNCHANGED hrRequest
       ELSE
           /\ hrRequest' = [hrRequest EXCEPT ![rid] =
                                PATCHUpdate(@, call.body.status, call.body.comments)]
           /\ inflight' = [inflight EXCEPT ![k] =
                             [call EXCEPT !.pc = "approval",
                                          !.updatedRequest = hrRequest'[rid]]]
           /\ UNCHANGED response

\* await prisma.requestApproval.create
PATCHWriteApproval(k) ==
    LET call == inflight[k] IN
    /\ call # NoCall
    /\ call.pc = "approval"
    /\ requestApproval' = Append(requestApproval, PATCHApproval(call.user, call.body))
    /\ inflight' = [inflight EXCEPT ![k] = [call EXCEPT !.pc = "connector"]]
    /\ UNCHANGED <<apiKey, user, session, hrRequest, notification, moves, response,
                   attendance, zenhrAttendance>>

\* await zenhrAPI.updateHRRequestStatus
PATCHConnector(k) ==
    LET call == inflight[k] IN
    /\ call # NoCall
    /\ call.pc = "connector"
    /\ UNCHANGED <<apiKey, user, session, hrRequest, requestApproval, notification, moves,
                   attendance, zenhrAttendance>>
    /\ \E net \in NetOutcomes :
         LET z == updateHRRequestStatus(net) IN
         IF PATCHAborts(z) THEN
             /\ response = Idle
             /\ response' = [Respond("update", call.caller, 500, z, call.body)
                               EXCEPT !.net = net]
             /\ inflight' = [inflight EXCEPT ![k] = NoCall]
         ELSE
             /\ inflight' = [inflight EXCEPT ![k] =
                               [call EXCEPT !.pc = "notification", !.zenhr = z, !.net = net]]
             /\ UNCHANGED response

\* await prisma.notification.create, and the response
PATCHWriteNotification(k) ==
    LET call == inflight[k] IN
    /\ call # NoCall
    /\ call.pc = "notification"
    /\ response = Idle
    /\ notification' = Append(notification, PATCHNotification(call.updatedRequest))
    /\ response' = [Respond("update", call.caller, 200, call.zenhr, call.body)
                      EXCEPT !.net = call.net]
    /\ inflight' = [inflight EXCEPT ![k] = NoCall]
    /\ UNCHANGED <<apiKey, user, session, hrRequest, requestApproval, moves,
                   attendance, zenhrAttendance>>

DoPATCHBegin == \E k \in Slots, c \in Clients, body \in PATCHBodies : PATCHBegin(k, c, body)

DoPATCHWriteStatus == \E k \in Slots : PATCHWriteStatus(k)

DoPATCHWriteApproval == \E k \in Slots : PATCHWriteApproval(k)

DoPATCHConnector == \E k \in Slots : PATCHConnector(k)

DoPATCHWriteNotification == \E k \in Slots : PATCHWriteNotification(k)

NextConcurrent ==
    \/ DoPATCHBegin
    \/ DoPATCHWriteStatus
    \/ DoPATCHWriteApproval
    \/ DoPATCHConnector
    \/ DoPATCHWriteNotification
    \/ Reply

\* status updates on the store of InitUpdates, interleaved at their awaits
SpecConcurrent == InitUpdates /\ [][NextConcurrent]_vars

(* ---------------------- POST /api/attendance -------------------------- *)
\* the Date a string that is no date parses to
InvalidDate == 0

\* new Date(date): the instant a date string denotes, as the day of February
\* 2024 whose UTC midnight it is
newDate(d) ==
    CASE d = "2024-02-15" -> 15
      [] d = "2024-02-15T00:00:00.000Z" -> 15
      [] d = "2024-02-16" -> 16
      [] OTHER -> InvalidDate

AttendanceInsertable_NoIndex(row) ==
    /\ row.employeeId \in Users
    /\ row.date # InvalidDate

\* create() takes a valid Date; unique index Attendance_employeeId_date_key
\* and the foreign key on employeeId
AttendanceInsertable(row) ==
    /\ row.employeeId \in Users
    /\ row.date # InvalidDate
    /\ \A i \in DOMAIN attendance :
         ~(attendance[i].employeeId = row.employeeId /\ attendance[i].date = row.date)

\* the handler up to its first await on the connector
AttendancePOSTBegin(k, c, date) ==
    LET s == session[c]
        R(code) == Respond("mark", c, code, "notcalled", [date |-> date])
    IN
    /\ inflight[k] = NoCall
    /\ UNCHANGED <<apiKey, user, session, hrRequest, requestApproval, notification, moves,
                   attendance, zenhrAttendance>>
    /\ IF s = NoSession THEN
           /\ response = Idle
           /\ response' = R(401)
           /\ UNCHANGED inflight
       ELSE IF date = NULL THEN
           /\ response = Idle
           /\ response' = R(400)
           /\ UNCHANGED inflight
       ELSE
           /\ Len(attendance) + Cardinality(Active) < MaxAttendance
           /\ inflight' = [inflight EXCEPT ![k] =
                             [pc |-> "markAttendance", caller |-> c, user |-> s,
                              date |-> date, zenhr |-> "notcalled", net |-> "none"]]
           /\ UNCHANGED response

RemoteMarks == LET Sum[S \in SUBSET MarkPayloads] ==
                       IF S = {} THEN 0
                       ELSE LET m == CHOOSE x \in S : TRUE
                            IN zenhrAttendance[m] + Sum[S \ {m}]
               IN Sum[MarkPayloads]

\* zenhrAPI.markAttendance({ employeeId: session.user.employeeId, date, ... });
\* every user carries one ZenHR employee id, written here as the user's id
AttendancePOSTConnector(k) ==
    LET call == inflight[k]
        m == [employeeId |-> call.user.id, date |-> call.date]
    IN
    /\ call # NoCall
    /\ call.pc = "markAttendance"
    /\ UNCHANGED <<apiKey, user, session, hrRequest, requestApproval, notification, moves,
                   attendance>>
    /\ \E net \in NetOutcomes :
         LET z == markAttendance(net) IN
         IF z = "failed" THEN
             /\ response = Idle
             /\ response' = [Respond("mark", call.caller, 500, z, [date |-> call.date])
                               EXCEPT !.net = net]
             /\ inflight' = [inflight EXCEPT ![k] = NoCall]
             /\ UNCHANGED zenhrAttendance
         ELSE
             /\ z = "ok" => RemoteMarks < MaxMarks
             /\ zenhrAttendance' = IF z = "ok"
                                   THEN [zenhrAttendance EXCEPT ![m] = @ + 1]
                                   ELSE zenhrAttendance
             /\ inflight' = [inflight EXCEPT ![k] =
                               [call EXCEPT !.pc = "create", !.zenhr = z, !.net = net]]
             /\ UNCHANGED response

\* prisma.attendance.create({ data: { employeeId: session.user.id, date: new Date(date) } })
AttendancePOSTCreate(k) ==
    LET call == inflight[k]
        row == [employeeId |-> call.user.id, date |-> newDate(call.date)]
        R(code) == [Respond("mark", call.caller, code, call.zenhr, [date |-> call.date])
                      EXCEPT !.net = call.net]
    IN
    /\ call # NoCall
    /\ call.pc = "create"
    /\ response = Idle
    /\ UNCHANGED <<apiKey, user, session, hrRequest, requestApproval, notification, moves,
                   zenhrAttendance>>
    /\ inflight' = [inflight EXCEPT ![k] = NoCall]
    /\ IF AttendanceInsertable(row) THEN
           /\ attendance' = Append(attendance, row)
           /\ response' = [R(200) EXCEPT !.data = <<Len(attendance) + 1>>]
       ELSE
           /\ response' = R(500)
           /\ UNCHANGED attendance

(* ----------------------- GET /api/attendance -------------------------- *)
AttendanceTarget_AnyRole(s, employeeId) ==
    IF employeeId # NULL THEN employeeId ELSE s.id

\* a manager or admin naming an employee reads that employee, anyone else reads themselves
AttendanceTarget(s, employeeId) ==
    IF employeeId # NULL /\ (s.role = "MANAGER" \/ s.role = "ADMIN")
    THEN employeeId
    ELSE s.id

AttendanceWhere(s, startDate, endDate, employeeId, row) ==
    /\ row.employeeId = AttendanceTarget(s, employeeId)
    /\ (startDate # NULL /\ endDate # NULL) =>
          (newDate(startDate) <= row.date /\ row.date <= newDate(endDate))

\* orderBy: { date: 'desc' }: the ids, the latest date first
RECURSIVE ByDateDesc(_)
ByDateDesc(ids) ==
    IF ids = {} THEN <<>>
    ELSE LET top == CHOOSE i \in ids : \A j \in ids : attendance[j].date <= attendance[i].date
         IN <<top>> \o ByDateDesc(ids \ {top})

AttendanceFindMany(s, startDate, endDate, employeeId) ==
    ByDateDesc({i \in DOMAIN attendance :
                  AttendanceWhere(s, startDate, endDate, employeeId, attendance[i])})

AttendanceGET(c, startDate, endDate, employeeId) ==
    LET s == session[c]
        q == [startDate |-> startDate, endDate |-> endDate, employeeId |-> employeeId]
    IN
    /\ response = Idle
    /\ UNCHANGED <<apiKey, user, session, hrRequest, requestApproval, notification, moves>>
    /\ UNCHANGED others
    /\ IF s = NoSession THEN
           response' = Respond("listAttendance", c, 401, "notcalled", q)
       ELSE
           response' = [Respond("listAttendance", c, 200, "notcalled", q)
                          EXCEPT !.data = AttendanceFindMany(s, startDate, endDate, employeeId)]

DoAttendancePOSTBegin ==
    \E k \in Slots, c \in Clients, date \in DateInputs : AttendancePOSTBegin(k, c, date)

DoAttendancePOSTConnector == \E k \in Slots : AttendancePOSTConnector(k)

DoAttendancePOSTCreate == \E k \in Slots : AttendancePOSTCreate(k)

DoAttendanceGET ==
    \E c \in Clients, range \in RangeInputs, employeeId \in EmployeeIdFilters :
        AttendanceGET(c, range[1], range[2], employeeId)

NextAttendance ==
    \/ DoAttendancePOSTBegin
    \/ DoAttendancePOSTConnector
    \/ DoAttendancePOSTCreate
    \/ DoAttendanceGET
    \/ Reply

\* the attendance handlers, with marks in progress at the same time
SpecAttendance == Init /\ [][NextAttendance]_vars

(* ------------------------------ claims -------------------------------- *)
\* a step in which a handler has run: it leaves its response
Handled(op) == response' # response /\ response'.op = op

\* C1: a submit with valid input whose connector call (submitHRRequest) fails
\* creates no HRRequest and no Notification row, and the caller gets a failure.
C1_ConnectorFailureCreatesNothing ==
    [][(Handled("submit") /\ response'.zenhr = "failed")
         => /\ hrRequest' = hrRequest
            /\ notification' = notification
            /\ response'.code = 500]_vars

C1_Witness ==
    /\ response.op = "submit"
    /\ response.zenhr = "failed"
    /\ response.code = 500
    /\ response.body.title # Undefined

\* C2: a submit that returns success appends exactly one HRRequest row: status
\* PENDING, priority as supplied or MEDIUM, requester the calling principal,
\* managerId a MANAGER of the requester's (stored) company when there is one
\* and unset otherwise; one Notification goes to that manager when managerId
\* is set, none otherwise.
C2_SuccessfulSubmitCreatesOneRequest ==
    [][(Handled("submit") /\ response'.code = 200)
         => LET n == Len(hrRequest) + 1
                r == hrRequest'[n]
                p == session[response'.caller]
                supplied == response'.body.priority
                managers == {m \in Users : /\ user[m].role = "MANAGER"
                                           /\ user[m].companyId = user[p.id].companyId}
            IN /\ Len(hrRequest') = n
               /\ SubSeq(hrRequest', 1, n - 1) = hrRequest
               /\ r.status = PENDING
               /\ r.priority = (IF supplied = Undefined THEN MEDIUM ELSE supplied)
               /\ r.employeeId = p.id
               /\ IF managers = {}
                  THEN r.managerId = NULL /\ notification' = notification
                  ELSE /\ r.managerId \in managers
                       /\ Len(notification') = Len(notification) + 1
                       /\ SubSeq(notification', 1, Len(notification)) = notification
                       /\ notification'[Len(notification')].userId = r.managerId]_vars

C2_Witness ==
    /\ response.op = "submit"
    /\ response.code = 200
    /\ response.body.priority = Undefined
    /\ hrRequest[Len(hrRequest)].priority = MEDIUM
    /\ hrRequest[Len(hrRequest)].managerId = "m1"
    /\ notification[Len(notification)].userId = "m1"

\* C3: in every reachable state every HRRequest row's company is the company
\* of its requester's User row.
C3_RequestTenantIsRequesterTenant ==
    \A i \in DOMAIN hrRequest :
        hrRequest[i].companyId = user[hrRequest[i].employeeId].companyId

\* C4: every updateStatus call that changes a request's status adds exactly one
\* RequestApproval row and exactly one Notification row.
C4_StatusChangeWritesOneApprovalOneNotification ==
    [][(Handled("update") /\ \E i \in DOMAIN hrRequest : hrRequest'[i].status # hrRequest[i].status)
         => /\ Len(requestApproval') = Len(requestApproval) + 1
            /\ Len(notification') = Len(notification) + 1]_vars

\* C5: an updateStatus call by a caller without a session, or whose role is
\* neither MANAGER nor ADMIN, is answered 401 and changes nothing: no request
\* modified, no approval or notification row, no connector call.
C5_UnauthorizedUpdateChangesNothing ==
    [][(Handled("update") /\ LET p == session[response'.caller]
                             IN p = NoSession \/ p.role \notin {"MANAGER", "ADMIN"})
         => /\ response'.code = 401
            /\ response'.zenhr = "notcalled"
            /\ UNCHANGED <<hrRequest, requestApproval, notification>>]_vars

C5_Witness ==
    /\ response.op = "update"
    /\ response.code = 401
    /\ session[response.caller].role = "EMPLOYEE"
    /\ Len(hrRequest) > 0

\* C6: whatever the store holds and whatever filters are given, a list call by
\* an EMPLOYEE returns only requests whose requester is that principal.
C6_EmployeeListsOnlyOwnRequests ==
    (response.op = "list" /\ session[response.caller].role = "EMPLOYEE")
        => \A k \in DOMAIN response.data :
               hrRequest[response.data[k]].employeeId = session[response.caller].id

C6_Witness ==
    /\ response.op = "list"
    /\ session[response.caller].role = "EMPLOYEE"
    /\ Len(response.data) = 1
    /\ \E i \in DOMAIN hrRequest : hrRequest[i].employeeId # session[response.caller].id

\* C7: for every authenticated principal and every filter combination, list
\* returns no HRRequest of a company other than the principal's.
C7_ListStaysInsideTenant ==
    (response.op = "list" /\ response.code = 200)
        => \A k \in DOMAIN response.data :
               hrRequest[response.data[k]].companyId = session[response.caller].companyId

\* C8: an updateStatus call by a MANAGER or ADMIN of company T changes no
\* HRRequest of another company and appends no RequestApproval to one.
C8_UpdateStaysInsideTenant ==
    [][Handled("update")
         => \A i \in DOMAIN hrRequest :
                hrRequest[i].companyId # session[response'.caller].companyId
                    => /\ hrRequest'[i] = hrRequest[i]
                       /\ \A k \in DOMAIN requestApproval' :
                              k \notin DOMAIN requestApproval
                                  => requestApproval'[k].requestId # i]_vars

\* C9: no step changes the managerId, requester or company of an existing
\* HRRequest, and an updateStatus call changes nothing but the status and
\* comments of its target request.
C9_UpdateChangesOnlyStatusAndComments ==
    [][/\ \A i \in DOMAIN hrRequest :
            /\ i \in DOMAIN hrRequest'
            /\ hrRequest'[i].managerId = hrRequest[i].managerId
            /\ hrRequest'[i].employeeId = hrRequest[i].employeeId
            /\ hrRequest'[i].companyId = hrRequest[i].companyId
       /\ Handled("update")
            => /\ Len(hrRequest') = Len(hrRequest)
               /\ \A i \in DOMAIN hrRequest :
                    /\ hrRequest'[i] = [hrRequest[i] EXCEPT !.status = hrRequest'[i].status,
                                                            !.comments = hrRequest'[i].comments]
                    /\ (response'.body = NoBody \/ i # response'.body.requestId)
                         => hrRequest'[i] = hrRequest[i]]_vars

C9_Witness ==
    /\ response.op = "update"
    /\ response.code = 200
    /\ Len(hrRequest) = 2
    /\ hrRequest[response.body.requestId].managerId = "m1"
    /\ hrRequest[response.body.requestId].status # PENDING

\* C10: a submit by an authenticated principal in which type, title or
\* description is missing (absent or empty) is answered 400 and has no effect:
\* no HRRequest or Notification row, no connector call.  (A caller without a
\* session is answered 401 before the body is read, also without effect.)
C10_InvalidSubmitHasNoEffect ==
    [][/\ (Handled("submit") /\ session[response'.caller] # NoSession
             /\ LET b == response'.body
                IN \/ b.type \in {Undefined, Empty}
                   \/ b.title \in {Undefined, Empty}
                   \/ b.description \in {Undefined, Empty})
            => /\ response'.code = 400
               /\ response'.zenhr = "notcalled"
               /\ UNCHANGED <<hrRequest, notification>>
       /\ (Handled("submit") /\ session[response'.caller] = NoSession)
            => /\ response'.code = 401
               /\ response'.zenhr = "notcalled"
               /\ UNCHANGED <<hrRequest, notification>>]_vars

C10_Witness ==
    /\ response.op = "submit"
    /\ response.code = 400
    /\ response.body.title = Undefined
    /\ response.body.type # Undefined

\* C11: the pair (employeeId, date) is unique in Attendance: in every reachable
\* state, whatever the interleaving of the marks in progress, no two rows have
\* the same employee and date, and a mark for a pair that already has a row
\* fails and writes nothing.
C11_AttendanceUniquePerEmployeeAndDate ==
    /\ [](\A i, j \in DOMAIN attendance :
            (attendance[i].employeeId = attendance[j].employeeId
             /\ attendance[i].date = attendance[j].date) => i = j)
    /\ [][(/\ Handled("mark")
           /\ session[response'.caller] # NoSession
           /\ response'.body.date # NULL
           /\ \E i \in DOMAIN attendance :
                /\ attendance[i].employeeId = session[response'.caller].id
                /\ attendance[i].date = newDate(response'.body.date))
          => (response'.code = 500 /\ attendance' = attendance)]_vars

\* a mark that the connector let through was refused by the store
C11_Witness ==
    /\ response.op = "mark"
    /\ response.code = 500
    /\ response.zenhr # "failed"
    /\ \E i \in DOMAIN attendance :
         /\ attendance[i].employeeId = session[response.caller].id
         /\ attendance[i].date = newDate(response.body.date)

\* C12: with no API key configured, each of the seven connector operations
\* answers with its canned result whatever the network would do, without a
\* network call and without failing, so that no submit or status update ends
\* in a connector failure.
C12_NoCredentialNoNetworkNoFailure ==
    ~apiKey =>
        /\ \A net \in {"ok", "error", "none"} :
             /\ fetchEmployeeData(net) = "mock"
             /\ fetchAllEmployees(net) = "mock"
             /\ markAttendance(net) = "mock"
             /\ fetchAttendanceRecords(net) = "mock"
             /\ submitHRRequest(net) = "mock"
             /\ fetchHRRequests(net) = "mock"
             /\ updateHRRequestStatus(net) = "mock"
        /\ response.zenhr \in {"notcalled", "mock"}
        /\ response.net = "none"

\* a status update went through on the canned answer of the connector
C12_Witness ==
    /\ ~apiKey
    /\ response.op = "update"
    /\ response.zenhr = "mock"
    /\ response.code = 200

\* C13: when updateHRRequestStatus fails inside a status update, nothing is
\* rolled back: the request carries the uppercased status and the comments
\* supplied (an update without comments leaves the stored ones), the approval
\* row of the call is in the log, no notification was created and the caller
\* gets a failure.
C13_ConnectorFailureKeepsLocalUpdate ==
    [][(Handled("update") /\ response'.zenhr = "failed") =>
          LET b == response'.body
              rid == b.requestId
              last == requestApproval'[Len(requestApproval')]
          IN
          /\ response'.code = 500
          /\ hrRequest'[rid].status = toUpperCase(b.status)
          /\ hrRequest'[rid].comments =
                 IF b.comments = Undefined THEN hrRequest[rid].comments ELSE b.comments
          /\ Len(requestApproval') = Len(requestApproval) + 1
          /\ SubSeq(requestApproval', 1, Len(requestApproval)) = requestApproval
          /\ last.requestId = rid
          /\ last.status = toUpperCase(b.status)
          /\ last.comments = b.comments
          /\ notification' = notification]_vars

\* a failed call has left its status, its comments and its approval row behind
C13_Witness ==
    /\ response.op = "update"
    /\ response.zenhr = "failed"
    /\ response.code = 500
    /\ response.body.comments # Undefined
    /\ hrRequest[response.body.requestId].status = toUpperCase(response.body.status)
    /\ hrRequest[response.body.requestId].comments = response.body.comments
    /\ requestApproval # <<>>
    /\ requestApproval[Len(requestApproval)].requestId = response.body.requestId

\* C14: a successful status update by a manager or admin on an existing
\* request, whatever its current status, sets the status to the uppercase of
\* the one supplied, appends one approval row with that status and the caller
\* as approver, and creates one notification for the requester; no other step
\* changes a request, so after any sequence of successful updates the status
\* is the uppercase of the last one supplied.
C14_SuccessfulUpdateSetsStatusFromAnyStatus ==
    [][/\ (Handled("update") /\ response'.code = 200) =>
            LET b == response'.body
                rid == b.requestId
                me == session[response'.caller]
            IN
            /\ me.role \in {"MANAGER", "ADMIN"}
            /\ hrRequest'[rid].status = toUpperCase(b.status)
            /\ requestApproval' =
                   Append(requestApproval,
                          [requestId |-> rid, approverId |-> me.id,
                           status |-> toUpperCase(b.status), comments |-> b.comments])
            /\ Len(notification') = Len(notification) + 1
            /\ SubSeq(notification', 1, Len(notification)) = notification
            /\ notification'[Len(notification')].userId = hrRequest[rid].employeeId
       /\ ~Handled("update") => hrRequest' = hrRequest]_vars

\* a request that an earlier update had moved off PENDING was updated again,
\* to another status
C14_Witness ==
    /\ response.op = "update"
    /\ response.code = 200
    /\ \E i \in 1..(Len(requestApproval) - 1) :
         /\ requestApproval[i].requestId = response.body.requestId
         /\ requestApproval[i].status # toUpperCase(response.body.status)
    /\ hrRequest[response.body.requestId].status = toUpperCase(response.body.status)

C16_ListIsRoleScopeAndFilters ==
    (/\ response.op = "list"
     /\ response.code = 200
     /\ session[response.caller].role \in {"MANAGER", "ADMIN"})
    => LET me == session[response.caller]
           InScope(r, employeeId) ==
               IF me.role = "MANAGER"
               THEN IF employeeId = NULL
                    THEN r.employeeId = me.id \/ r.managerId = me.id
                    ELSE r.employeeId = employeeId
               ELSE /\ r.companyId = me.companyId
                    /\ employeeId = NULL \/ r.employeeId = employeeId
           Matches(r, status, type) ==
               /\ status = Undefined \/ r.status = toUpperCase(status)
               /\ type = Undefined \/ r.type = toUpperCase(type)
           Queries == StatusFilters \X TypeFilters \X EmployeeIdFilters
           Listed(q) == GETFindMany(me, q[1], q[2], q[3])
       IN
       /\ \A q \in Queries :
            /\ {Listed(q)[k] : k \in DOMAIN Listed(q)} =
                   {i \in DOMAIN hrRequest :
                      InScope(hrRequest[i], q[3]) /\ Matches(hrRequest[i], q[1], q[2])}
            /\ \A k, l \in DOMAIN Listed(q) : Listed(q)[k] = Listed(q)[l] => k = l
       /\ \E q \in Queries : response.data = Listed(q)

\* a manager was listed one request out of a store of two, one of which is
\* assigned to the manager and was authored by someone else
C16_Witness ==
    /\ response.op = "list"
    /\ response.code = 200
    /\ session[response.caller].role = "MANAGER"
    /\ Len(hrRequest) = 2
    /\ Len(response.data) = 1
    /\ hrRequest[response.data[1]].managerId = session[response.caller].id
    /\ hrRequest[response.data[1]].employeeId # session[response.caller].id
    /\ hrRequest[response.data[1]].status # PENDING

\* C17: an attendance query returns rows of one employee only: the caller's
\* own for an EMPLOYEE (and for any role other than MANAGER and ADMIN), also
\* when employeeId names someone else; the named employee's for a MANAGER or
\* ADMIN who supplies employeeId, and their own without it. Without a date
\* range these are all the rows of that employee.
C17_AttendanceListScope ==
    (response.op = "listAttendance" /\ response.code = 200)
    => LET me == session[response.caller]
           q == response.body
           whose == IF q.employeeId # NULL /\ me.role \in {"MANAGER", "ADMIN"}
                    THEN q.employeeId
                    ELSE me.id
           listed == {response.data[k] : k \in DOMAIN response.data}
       IN
       /\ listed \subseteq DOMAIN attendance
       /\ \A i \in listed : attendance[i].employeeId = whose
       /\ (q.startDate = NULL \/ q.endDate = NULL)
             => listed = {i \in DOMAIN attendance : attendance[i].employeeId = whose}

\* an employee who asked for the rows of a colleague who has some got their own
C17_Witness ==
    /\ response.op = "listAttendance"
    /\ response.code = 200
    /\ session[response.caller].role = "EMPLOYEE"
    /\ response.body.employeeId \notin {NULL, session[response.caller].id}
    /\ \E i \in DOMAIN attendance : attendance[i].employeeId = response.body.employeeId
    /\ response.data # <<>>

\* C18: whenever no status update is in progress, every request that has
\* approval rows has the status of the most recently created of them, also
\* when updates of one request run at the same time.
C18_StatusIsLatestApproval ==
    Active = {} =>
        \A i \in DOMAIN hrRequest :
            LET mine == {k \in DOMAIN requestApproval : requestApproval[k].requestId = i}
            IN mine # {} =>
                   hrRequest[i].status =
                       requestApproval[CHOOSE k \in mine : \A l \in mine : l <= k].status

\* C19: local and remote attendance agree: with a credential configured and no
\* mark in progress, the ZenHR service has accepted a mark for an employee and
\* a date exactly as many times as there is a local Attendance row for them.
C19_LocalAndRemoteAttendanceAgree ==
    (apiKey /\ Active = {})
    => \A u \in Users, d \in {newDate(x) : x \in DateInputs \ {NULL}} \ {InvalidDate} :
         LET accepted == {m \in MarkPayloads : m.employeeId = u /\ newDate(m.date) = d}
             Count[S \in SUBSET accepted] ==
                 IF S = {} THEN 0
                 ELSE LET m == CHOOSE x \in S : TRUE
                      IN zenhrAttendance[m] + Count[S \ {m}]
         IN Count[accepted] =
                Cardinality({i \in DOMAIN attendance :
                               attendance[i].employeeId = u /\ attendance[i].date = d})

====
